---- MODULE Spec2Model ----
(***************************************************************************)
(* Model of nb_conda_store_kernels: CondaStoreKernelSpecManager            *)
(* (manager.py) and run_sync (utils.py).                                   *)
(*                                                                         *)
(* Strings are sequences of one-character strings, so that formatting,     *)
(* lower-casing and kernel-name validation are computed and not assumed.   *)
(***************************************************************************)
EXTENDS Integers, Sequences, FiniteSets, TLC

(***************************************************************************)
(* Bounds of the model.                                                    *)
(***************************************************************************)
\* Longest environment list one registry query returns.
MaxEnvs == 2

(***************************************************************************)
(* Text.                                                                   *)
(***************************************************************************)
s_teamA    == <<"t","e","a","m","A">>
s_teamB    == <<"t","e","a","m","B">>
s_analysis == <<"a","n","a","l","y","s","i","s">>
s_python3  == <<"p","y","t","h","o","n","3">>
s_ghost    == <<"g","h","o","s","t">>
s_teamA_dev    == <<"t","e","a","m","A","/","d","e","v">>
s_dev_analysis == <<"d","e","v","/","a","n","a","l","y","s","i","s">>

Digit(d) == CASE d = 0 -> "0" [] d = 1 -> "1" [] d = 2 -> "2" [] d = 3 -> "3"
              [] d = 4 -> "4" [] d = 5 -> "5" [] d = 6 -> "6" [] d = 7 -> "7"
              [] d = 8 -> "8" [] d = 9 -> "9"

RECURSIVE str(_)
\* str(build) of a non-negative integer (manager.py:101, and the conversion
\* str.format applies to the build field).
str(n) == IF n < 10 THEN <<Digit(n)>> ELSE str(n \div 10) \o <<Digit(n % 10)>>

\* The upper-case letters and their lower-case forms.
LowerTable ==
    [ c \in { "A","B","C","D","E","F","G","H","I","J","K","L","M","N","O","P",
              "Q","R","S","T","U","V","W","X","Y","Z" } |->
        CASE c = "A" -> "a" [] c = "B" -> "b" [] c = "C" -> "c" [] c = "D" -> "d"
          [] c = "E" -> "e" [] c = "F" -> "f" [] c = "G" -> "g" [] c = "H" -> "h"
          [] c = "I" -> "i" [] c = "J" -> "j" [] c = "K" -> "k" [] c = "L" -> "l"
          [] c = "M" -> "m" [] c = "N" -> "n" [] c = "O" -> "o" [] c = "P" -> "p"
          [] c = "Q" -> "q" [] c = "R" -> "r" [] c = "S" -> "s" [] c = "T" -> "t"
          [] c = "U" -> "u" [] c = "V" -> "v" [] c = "W" -> "w" [] c = "X" -> "x"
          [] c = "Y" -> "y" [] c = "Z" -> "z" ]

LowerChar(c) == IF c \in DOMAIN LowerTable THEN LowerTable[c] ELSE c

\* kernel_name.lower(), applied by install_kernel_spec to kernel_name.
lower(s) == [i \in 1..Len(s) |-> LowerChar(s[i])]

KernelNameChars ==
    {"a","b","c","d","e","f","g","h","i","j","k","l","m","n","o","p","q","r",
     "s","t","u","v","w","x","y","z","0","1","2","3","4","5","6","7","8","9",
     ".","_","-"}

\* The kernel-name pattern ^[a-z0-9._\-]+$ (case-insensitive) that
\* install_kernel_spec requires of kernel_name.
is_valid_kernel_name(s) ==
    /\ Len(s) > 0
    /\ \A i \in 1..Len(s) : LowerChar(s[i]) \in KernelNameChars

(***************************************************************************)
(* Environment records and the display-name template.                      *)
(***************************************************************************)
Env(ns, nm, b) == [namespace |-> ns, name |-> nm, current_build_id |-> b]

\* The environment records a registry query may return.
Environments ==
    { Env(s_teamA, s_analysis, 42),
      Env(s_teamB, s_analysis, 43),
      Env(s_teamA, s_python3, 44) }

\* Two environment records whose namespace and name hold the character the
\* identity separates them with.
SeparatorEnvironments ==
    { Env(s_teamA, s_dev_analysis, 45),
      Env(s_teamA_dev, s_analysis, 45) }

\* What the registry holds of an environment: the record's three fields and
\* the status, the artifacts and the packages of its current build.
Record(env, status, artifacts, packages) ==
    [ namespace |-> env.namespace, name |-> env.name,
      current_build_id |-> env.current_build_id,
      status |-> status, artifacts |-> artifacts, packages |-> packages ]

\* A record list_environments(status="COMPLETED", artifact="CONDA_PACK",
\* packages=["ipykernel"]) is to return.
Completed(env) ==
    Record(env, "COMPLETED", { "CONDA_PACK", "LOCKFILE" },
           { "ipykernel", "numpy" })

\* Records the registry holds that the filters of the query exclude: a build
\* that is not completed, one without the CONDA_PACK artifact, one without
\* the ipykernel package.
ExcludedRecords ==
    { Record(Env(s_teamB, s_python3, 46), "BUILDING",
             { "CONDA_PACK", "LOCKFILE" }, { "ipykernel", "numpy" }),
      Record(Env(s_teamB, s_python3, 47), "COMPLETED",
             { "LOCKFILE" }, { "ipykernel", "numpy" }),
      Record(Env(s_teamB, s_python3, 48), "COMPLETED",
             { "CONDA_PACK", "LOCKFILE" }, { "numpy" }) }

\* The records a registry may hold.
Records ==
    { Completed(env) : env \in Environments \cup SeparatorEnvironments }
        \cup ExcludedRecords

\* environment["namespace"]["name"], environment["name"] and
\* environment["current_build_id"]: the fields the loop reads of a record.
EnvOf(record) ==
    Env(record.namespace, record.name, record.current_build_id)

\* Every environment a record of the model describes.
AllEnvironments == { EnvOf(r) : r \in Records }

\* A template is a sequence of tokens: a field or a literal character.
F_namespace == "{namespace}"
F_name      == "{name}"
F_build     == "{build}"

\* name_format's default, "{namespace}/{name}:{build}".
DefaultNameFormat == <<F_namespace, "/", F_name, ":", F_build>>

\* The templates name_format is configured with.
NameFormats ==
    { DefaultNameFormat,
      <<F_name>>,
      <<F_name, "-", F_build>>,
      <<F_namespace>> }

RECURSIVE format(_, _, _, _)
\* self.name_format.format(namespace=..., name=..., build=...)
format(fmt, namespace, name, build) ==
    IF fmt = <<>> THEN <<>>
    ELSE LET tok == Head(fmt)
             sub == CASE tok = F_namespace -> namespace
                      [] tok = F_name      -> name
                      [] tok = F_build     -> str(build)
                      [] OTHER             -> <<tok>>
         IN  sub \o format(Tail(fmt), namespace, name, build)

s_scheme == <<"c","o","n","d","a","-","s","t","o","r","e",":","/","/">>

\* f"conda-store://{namespace}/{name}:{build}"
identity(env) ==
    s_scheme \o env.namespace \o <<"/">> \o env.name \o <<":">>
             \o str(env.current_build_id)

\* tempfile.gettempdir()
s_tmp == <<"/","t","m","p">>
s_conda_store == <<"c","o","n","d","a","-","s","t","o","r","e">>

\* os.path.join(tempfile.gettempdir(), "conda-store", str(build))
resource_dir(env) ==
    s_tmp \o <<"/">> \o s_conda_store \o <<"/">> \o str(env.current_build_id)

\* f"/usr/local/share/jupyter/kernels/{name}/scripts/launch_kubernetes.py"
s_sys_kernels == <<"/","u","s","r","/","l","o","c","a","l","/","s","h","a","r","e",
                   "/","j","u","p","y","t","e","r","/","k","e","r","n","e","l","s">>
s_launcher == <<"/","s","c","r","i","p","t","s","/","l","a","u","n","c","h","_",
                "k","u","b","e","r","n","e","t","e","s",".","p","y">>

\* The KernelSpec built for one environment record.
KernelSpec(fmt, env) ==
    [ display_name |-> format(fmt, env.namespace, env.name, env.current_build_id),
      argv         |-> << "python",
                          s_sys_kernels \o <<"/">> \o env.name \o s_launcher,
                          "--RemoteProcessProxy.kernel-id", "{kernel_id}",
                          "--RemoteProcessProxy.port-range", "{port_range}",
                          "--RemoteProcessProxy.response-address", "{response_address}",
                          "--RemoteProcessProxy.public-key", "{public_key}" >>,
      language     |-> "python",
      resource_dir |-> resource_dir(env),
      metadata     |-> [ process_proxy |->
                          [ class_name |-> "enterprise_gateway.services.processproxies.k8s.KubernetesProcessProxy",
                            config     |-> [ image_name |-> "elyra/kernel-py:2.6.0" ] ] ] ]

(***************************************************************************)
(* The text operators above, tabulated once over the templates and         *)
(* environments of the model; the operations below look the values up.     *)
(***************************************************************************)
KernelSpecOf == [ fmt \in NameFormats |->
                    [ env \in AllEnvironments |-> KernelSpec(fmt, env) ] ]

IdentityOf == [ env \in AllEnvironments |-> identity(env) ]

DisplayNames ==
    { KernelSpecOf[fmt][env].display_name :
        fmt \in NameFormats, env \in AllEnvironments }

LowerOf == [ s \in DisplayNames |-> lower(s) ]

IsValidKernelName ==
    [ s \in { LowerOf[d] : d \in DisplayNames } |-> is_valid_kernel_name(s) ]

(***************************************************************************)
(* The kernel directories on disk.  A directory tree maps a kernel name to *)
(* a directory; of a directory the model keeps kernel.json: <<>> when the  *)
(* file is missing, <<content>> when it is there.                          *)
(***************************************************************************)
s_user_kernels == <<"~","/",".","l","o","c","a","l","/","s","h","a","r","e",
                    "/","j","u","p","y","t","e","r","/","k","e","r","n","e","l","s">>
s_my == <<"m","y","-">>
s_ipykernel_launcher == <<"i","p","y","k","e","r","n","e","l","_",
                          "l","a","u","n","c","h","e","r",".","p","y">>

\* kernel.json of a kernel that was installed natively, by other means.
NativeJson(display_name) ==
    [ display_name |-> display_name,
      argv         |-> << "python", s_ipykernel_launcher, "-f",
                          "{connection_file}" >>,
      language     |-> "python",
      metadata     |-> [ native |-> TRUE ] ]

Dir(json) == [ kernel_json |-> json ]

\* Kernel names under which a native kernel may sit in the user's directory
\* before the first cycle, and under the system directory
\* /usr/local/share/jupyter/kernels.
NativeNames == { s_analysis, s_python3 }

\* The native kernels of the user's directory before the first cycle.
UserNativeSets == { { s_analysis } }
\* The kernel directories under /usr/local/share/jupyter/kernels; they are
\* the source directories of install_kernel_spec.
SysNativeSets == { { s_analysis } }

\* os.path.join(kernel_dir, kernel_name) for the user's and the system's
\* kernel directory.
UserPath ==
    [ k \in NativeNames \cup DOMAIN IsValidKernelName |->
        s_user_kernels \o <<"/">> \o k ]
SysPath == [ k \in NativeNames |-> s_sys_kernels \o <<"/">> \o k ]

UserTree(names) == [ k \in names |-> Dir(<<NativeJson(s_my \o k)>>) ]
SysTree(names)  == [ k \in names |-> Dir(<<NativeJson(k)>>) ]

\* _is_kernel_dir: the directory holds a kernel.json.
is_kernel_dir(tree, k) == k \in DOMAIN tree /\ Len(tree[k].kernel_json) > 0

KernelDirs(tree) == { k \in DOMAIN tree : is_kernel_dir(tree, k) }

\* KernelSpecManager.find_kernel_specs of jupyter_client, reached through
\* super(): kernel name -> resource directory over the kernel directories,
\* the user's directory searched first.
native_find_kernel_specs(ud, sd) ==
    [ k \in KernelDirs(ud) \cup KernelDirs(sd) |->
        IF k \in KernelDirs(ud) THEN UserPath[k] ELSE SysPath[k] ]

\* KernelSpecManager.get_kernel_spec of jupyter_client, reached through
\* super(): the spec read from the kernel.json found, or NoSuchKernel.
native_get_kernel_spec(ud, sd, kernel_name) ==
    LET found == native_find_kernel_specs(ud, sd)
    IN  IF kernel_name \in DOMAIN found
        THEN LET json == IF kernel_name \in KernelDirs(ud)
                         THEN ud[kernel_name].kernel_json[1]
                         ELSE sd[kernel_name].kernel_json[1]
             IN  [ exc   |-> "none",
                   value |-> [ display_name |-> json.display_name,
                               argv         |-> json.argv,
                               language     |-> json.language,
                               resource_dir |-> found[kernel_name],
                               metadata     |-> json.metadata ] ]
        ELSE [ exc |-> "NoSuchKernel", value |-> <<>> ]

(***************************************************************************)
(* Installation of one definition (manager.py:114-129).                    *)
(***************************************************************************)
\* What the filesystem does to one install_kernel_spec call: nothing wrong,
\* or the disk filling up while the tree is copied.
FsOutcomes == { "ok", "ENOSPC" }

Remove(tree, k) == [ j \in DOMAIN tree \ {k} |-> tree[j] ]
Put(tree, k, d) == [ j \in DOMAIN tree \cup {k} |-> IF j = k THEN d ELSE tree[j] ]

\* self.install_kernel_spec(f'/usr/local/share/jupyter/kernels/{name}/',
\*     kernel_name=display_name, user=True, prefix=self._kernel_prefix):
\* the name is lower-cased and validated (ValueError), an existing
\* destination is removed (shutil.rmtree) and the source directory is copied
\* to it (shutil.copytree); filesystem failures are OSError.
install_kernel_spec(ud, sd, source_name, kernel_name, fs) ==
    LET kn   == LowerOf[kernel_name]
        dest == UserPath[kn]
    IN  IF ~ IsValidKernelName[kn]
          THEN [ exc |-> "ValueError", destination |-> <<>>, userDir |-> ud ]
        ELSE IF source_name \notin DOMAIN sd
          THEN [ exc |-> "OSError", destination |-> <<>>,
                 userDir |-> Remove(ud, kn) ]
        ELSE IF fs = "ENOSPC"
          THEN [ exc |-> "OSError", destination |-> <<>>,
                 userDir |-> Put(ud, kn, Dir(<<>>)) ]
        ELSE [ exc |-> "none", destination |-> dest,
               userDir |-> Put(ud, kn, sd[source_name]) ]

\* The exceptions the operations end with, besides the query failures.
ExcOsJoin     == "AttributeError: module 'os' has no attribute 'join'"
ExcNoneToDict == "AttributeError: 'NoneType' object has no attribute 'to_dict'"

\* kernel_spec = os.join(destination, "kernel.json") and the write after it
\* (manager.py:121-124).  The os module has no attribute join: evaluating
\* os.join raises AttributeError, and the lines after it never run.
write_kernel_json(ud, destination, kernel_spec_write) ==
    [ exc |-> ExcOsJoin, userDir |-> ud ]

\* The rest of the try block once os.join and the write have run: OSError is
\* caught and logged, any other exception leaves the loop.
after_write(inst, wr) ==
    IF wr.exc = "OSError"
      THEN [ exc |-> "none", userDir |-> wr.userDir, warned |-> TRUE,
             destination |-> inst.destination ]
      ELSE [ exc |-> wr.exc, userDir |-> wr.userDir, warned |-> FALSE,
             destination |-> inst.destination ]

\* The rest of the try block once install_kernel_spec has run.
after_install(inst, spec) ==
    IF inst.exc = "OSError"
      THEN [ exc |-> "none", userDir |-> inst.userDir, warned |-> TRUE,
             destination |-> << >> ]
    ELSE IF inst.exc # "none"
      THEN [ exc |-> inst.exc, userDir |-> inst.userDir, warned |-> FALSE,
             destination |-> << >> ]
    ELSE after_write(inst,
                     write_kernel_json(inst.userDir, inst.destination, spec))

\* The try block of manager.py:114-129 for one definition: OSError is
\* caught and logged (warned), any other exception leaves the loop.
\* destination is what install_kernel_spec returned, << >> when it raised.
install_one(ud, sd, env, spec, fs) ==
    after_install(install_kernel_spec(ud, sd, env.name, spec.display_name, fs),
                  spec)

(***************************************************************************)
(* One synchronization cycle: _kernel_specs (manager.py:62-130), run to    *)
(* completion by run_sync (utils.py:10-29).                                *)
(***************************************************************************)
\* How list_environments ends: with the environment list, or with a failure
\* of the connection, of the authentication or of the response's decoding.
QueryOutcomes == { "ok", "ConnectionError", "AuthError", "MalformedResponse" }
QueryFailures == QueryOutcomes \ { "ok" }

RECURSIVE install_loop(_, _, _, _, _, _, _, _)
RECURSIVE loop_body(_, _, _, _, _, _, _, _)

\* What one iteration leaves in steps.
Step(env, one) ==
    [ identity |-> IdentityOf[env], destination |-> one.destination,
      exc |-> one.exc, warned |-> one.warned ]

\* The i-th iteration of the for loop once its try block has run (one): an
\* exception that was not caught ends the coroutine, otherwise the loop goes
\* on with the next environment.
loop_body(envs, i, fmt, sd, fs, kernel_specs, steps, one) ==
    IF one.exc # "none"
      THEN [ exc |-> one.exc, query |-> "ok", kernel_specs |-> << >>,
             userDir |-> one.userDir,
             steps |-> Append(steps, Step(envs[i], one)) ]
      ELSE install_loop(envs, i + 1, fmt, one.userDir, sd, fs, kernel_specs,
                        Append(steps, Step(envs[i], one)))

\* The for loop of manager.py:75-129 from the i-th environment on.
\* kernel_specs is the dictionary built so far, steps the record of what
\* each iteration did.
install_loop(envs, i, fmt, ud, sd, fs, kernel_specs, steps) ==
    IF i > Len(envs)
      THEN [ exc |-> "none", query |-> "ok", kernel_specs |-> kernel_specs,
             userDir |-> ud, steps |-> steps ]
      ELSE loop_body(envs, i, fmt, sd, fs,
                     Put(kernel_specs, IdentityOf[envs[i]],
                         KernelSpecOf[fmt][envs[i]]),
                     steps,
                     install_one(ud, sd, envs[i], KernelSpecOf[fmt][envs[i]],
                                 fs[i]))

\* list_environments called without its three filters.
list_environments_unfiltered(held, status, artifact, packages) == held

\* conda_store_api.list_environments(status=..., artifact=..., packages=[...])
\* when the registry answers: the records it holds that have the status, the
\* artifact and every package asked for, in the registry's order.
list_environments(held, status, artifact, packages) ==
    SelectSeq(held, LAMBDA r : /\ r.status = status
                               /\ artifact \in r.artifacts
                               /\ packages \subseteq r.packages)

\* _kernel_specs with the query's failure caught and an empty result returned.
_kernel_specs_swallow(query, envs, fmt, ud, sd, fs) ==
    IF query # "ok"
      THEN [ exc |-> "none", query |-> query, kernel_specs |-> << >>,
             userDir |-> ud, steps |-> << >> ]
      ELSE install_loop(envs, 1, fmt, ud, sd, fs, << >>, << >>)

\* async def _kernel_specs(self): the registry query inside the scoped
\* connection, then the loop.  A failing query raises out of the async with
\* block before anything else runs.
_kernel_specs(query, envs, fmt, ud, sd, fs) ==
    IF query # "ok"
      THEN [ exc |-> query, query |-> query, kernel_specs |-> << >>,
             userDir |-> ud, steps |-> << >> ]
      ELSE install_loop(envs, 1, fmt, ud, sd, fs, << >>, << >>)

\* run_sync with the exception of the coroutine dropped: the wrapper returns
\* None where the coroutine raised.
run_sync_returns_none(coro) ==
    [ exc          |-> "none",
      query        |-> coro.query,
      kernel_specs |-> IF coro.exc = "none" THEN coro.kernel_specs ELSE << >>,
      userDir      |-> coro.userDir,
      steps        |-> coro.steps,
      cancelled    |-> FALSE ]

\* run_sync(coro)(): runs the coroutine to completion on the event loop and
\* returns its result; on any exception cancels the future and re-raises.
\* cancelled records the future.cancel() of the except branch.
run_sync(coro) ==
    [ exc          |-> coro.exc,
      query        |-> coro.query,
      kernel_specs |-> coro.kernel_specs,
      userDir      |-> coro.userDir,
      steps        |-> coro.steps,
      cancelled    |-> coro.exc # "none" ]

\* Where wrapped() finds itself called (utils.py:12-20): inside a running
\* event loop, outside one with a loop the policy hands out, or with neither,
\* when it creates a loop.
LoopContexts == { "running", "current", "new" }

\* The loop wrapped() works on: the running or current one as it is, or a
\* new one, which nest_asyncio has not patched.
get_loop(ctx, l) ==
    [ ctx |-> ctx, patched |-> IF ctx = "new" THEN FALSE ELSE l.patched ]

\* nest_asyncio.apply(loop): run_until_complete of the loop may from now on
\* be called while the loop runs.
nest_asyncio_apply(l) == [ l EXCEPT !.patched = TRUE ]

\* loop.run_until_complete(future) refuses to start on a loop that is
\* running, unless nest_asyncio patched the loop.
ExcAlreadyRunning == "RuntimeError: This event loop is already running"
can_run_until_complete(l) == l.ctx # "running" \/ l.patched

\* The kernel_specs property (manager.py:58-60).
kernel_specs(query, envs, fmt, ud, sd, fs) ==
    run_sync(_kernel_specs(query, envs, fmt, ud, sd, fs))

(***************************************************************************)
(* The public operations (manager.py:132-159), as functions of the state   *)
(* they read and of what the registry and the filesystem do during them.   *)
(***************************************************************************)
\* dict.update: the entries of b laid over those of a.
update(a, b) ==
    [ k \in DOMAIN a \cup DOMAIN b |-> IF k \in DOMAIN b THEN b[k] ELSE a[k] ]

\* The rest of find_kernel_specs once the native mapping (native) and the
\* kernel_specs property (cyc) have been evaluated (manager.py:137-140).
find_result(native, cyc) ==
    IF cyc.exc # "none"
      THEN [ exc |-> cyc.exc, value |-> << >>, userDir |-> cyc.userDir,
             cycle |-> cyc ]
      ELSE [ exc |-> "none",
             value |-> << update(native,
                                 [ n \in DOMAIN cyc.kernel_specs |->
                                     cyc.kernel_specs[n].resource_dir ]) >>,
             userDir |-> cyc.userDir, cycle |-> cyc ]

\* find_kernel_specs with conda_store_only ignored: the native kernels are
\* always part of the result.
find_kernel_specs_always_native(only, query, envs, fmt, ud, sd, fs) ==
    find_result(native_find_kernel_specs(ud, sd),
                kernel_specs(query, envs, fmt, ud, sd, fs))

\* def find_kernel_specs(self)
find_kernel_specs(only, query, envs, fmt, ud, sd, fs) ==
    find_result(IF only THEN << >> ELSE native_find_kernel_specs(ud, sd),
                kernel_specs(query, envs, fmt, ud, sd, fs))

\* result = super().get_kernel_spec(kernel_name); return result
\* (manager.py:145-146), nat being what the base class's method did.
native_result(nat, cyc) ==
    [ exc |-> nat.exc,
      value |-> IF nat.exc = "none" THEN << nat.value >> ELSE << >>,
      userDir |-> cyc.userDir, cycle |-> cyc ]

\* The rest of get_kernel_spec once the kernel_specs property (cyc) has been
\* evaluated.  value is << >> for None.
get_result(only, kernel_name, sd, cyc) ==
    IF cyc.exc # "none"
      THEN [ exc |-> cyc.exc, value |-> << >>, userDir |-> cyc.userDir,
             cycle |-> cyc ]
    ELSE IF kernel_name \in DOMAIN cyc.kernel_specs
      THEN [ exc |-> "none", value |-> << cyc.kernel_specs[kernel_name] >>,
             userDir |-> cyc.userDir, cycle |-> cyc ]
    ELSE IF ~ only
      THEN native_result(native_get_kernel_spec(cyc.userDir, sd, kernel_name),
                         cyc)
    ELSE [ exc |-> "none", value |-> << >>, userDir |-> cyc.userDir,
           cycle |-> cyc ]

\* def get_kernel_spec(self, kernel_name)
get_kernel_spec(only, kernel_name, query, envs, fmt, ud, sd, fs) ==
    get_result(only, kernel_name, sd,
               kernel_specs(query, envs, fmt, ud, sd, fs))

RECURSIVE SetToSeq(_)
\* The elements of a finite set in one fixed order (a directory listing).
SetToSeq(S) ==
    IF S = {} THEN << >>
    ELSE LET x == CHOOSE y \in S : TRUE IN << x >> \o SetToSeq(S \ { x })

\* The keys of the dictionary find_kernel_specs returns, in the order the
\* dictionary yields them: the native names in the order their directories
\* were listed, then the remote identities that are not among them, in the
\* order of the registry.
items(native, only, envs) ==
    LET nat == IF only THEN << >> ELSE SetToSeq(DOMAIN native)
        ids == [ i \in 1..Len(envs) |-> IdentityOf[envs[i]] ]
        new == SelectSeq(ids, LAMBDA n : only \/ n \notin DOMAIN native)
    IN  nat \o new

\* remove_kernel_spec as the base class has it: the kernel's directory is
\* deleted.
remove_kernel_spec_rmtree(ud, name) ==
    IF name \in DOMAIN ud THEN Remove(ud, name) ELSE ud

\* def remove_kernel_spec(self, name): pass
remove_kernel_spec(ud, name) == ud

\* KernelSpec.to_dict() of jupyter_client: the fields kernel.json carries.
to_dict(spec) ==
    [ argv           |-> spec.argv,
      env            |-> << >>,
      display_name   |-> spec.display_name,
      language       |-> spec.language,
      interrupt_mode |-> "signal",
      metadata       |-> spec.metadata ]

(***************************************************************************)
(* State.                                                                  *)
(***************************************************************************)
VARIABLES
    registry,         \* what the latest answered query returned; between
                      \* two queries the registry's content changes freely
    conda_store_only, \* the trait of manager.py:45
    name_format,      \* the trait of manager.py:35
    userDir,          \* the user's kernel directory
    sysDir,           \* /usr/local/share/jupyter/kernels
    userDir0,         \* the user's kernel directory before the first cycle
    call,             \* the latest call of a public operation and how it ended
    pc,               \* "idle", or "get_all_specs" inside its loop
    found,            \* get_all_specs: the mapping its find_kernel_specs gave
    todo,             \* get_all_specs: the names its loop has yet to visit
    result,           \* get_all_specs: the result dictionary so far
    loop,             \* the event loop run_sync last worked on
    task,             \* the _kernel_specs coroutine run_sync is running
    conn              \* the connections to the registry

vars == << registry, conda_store_only, name_format, userDir, sysDir, userDir0,
           call, pc, found, todo, result, loop, task, conn >>

IsInjective(s) == \A i, j \in 1..Len(s) : i # j => s[i] # s[j]

\* The environment lists a query may return: no record twice.
RegistryValues ==
    { s \in UNION { [1..n -> Environments] : n \in 0..MaxEnvs } : IsInjective(s) }

\* The names get_kernel_spec and remove_kernel_spec are called with.
KernelNames ==
    { IdentityOf[Env(s_teamA, s_analysis, 42)], s_analysis, s_ghost }

FsChoices(envs) == [1..Len(envs) -> FsOutcomes]

\* What the outside world does during one cycle: how the query ends, the
\* environments it returns, and how the filesystem treats each install.
Worlds ==
    { [ query |-> q, envs |-> << >>, fs |-> << >> ] : q \in QueryFailures }
    \cup UNION { { [ query |-> "ok", envs |-> r, fs |-> f ] : f \in FsChoices(r) }
                 : r \in RegistryValues }

\* The record of one call: the operation, its argument, how it ended (exc is
\* "none" when it returned, "running" inside get_all_specs), its value
\* (<< >> for None), the number of registry queries it issued, the user's
\* kernel directory when it began, and what its latest cycle did.
Call(op, arg, exc, value, queries, before, cycle) ==
    [ op |-> op, arg |-> arg, exc |-> exc, value |-> value,
      queries |-> queries, before |-> before, query |-> cycle.query,
      steps |-> cycle.steps, cancelled |-> cycle.cancelled ]

NoCycle == [ query |-> "", steps |-> << >>, cancelled |-> FALSE ]

\* The registry's content at one query: no record twice.
Holdings ==
    { s \in UNION { [1..n -> Records] : n \in 0..MaxEnvs } : IsInjective(s) }

\* What the registry does to one query: it fails, or it answers from the
\* records it holds.
RegistryWorlds ==
    { [ query |-> q, held |-> << >> ] : q \in QueryFailures }
    \cup { [ query |-> "ok", held |-> h ] : h \in Holdings }

\* A coroutine that has not ended.
NoCoro == [ exc |-> "none", query |-> "", kernel_specs |-> << >>,
            userDir |-> << >>, steps |-> << >> ]

NoTask == [ pc |-> "idle", before |-> << >>, held |-> << >>, envs |-> << >>,
            coro |-> NoCoro ]

Init ==
    /\ registry = << >>
    /\ conda_store_only \in BOOLEAN
    /\ name_format \in NameFormats
    /\ userDir \in { UserTree(S) : S \in UserNativeSets }
    /\ sysDir \in { SysTree(S) : S \in SysNativeSets }
    /\ userDir0 = userDir
    /\ call = Call("__init__", << >>, "none", << >>, 0, userDir, NoCycle)
    /\ pc = "idle"
    /\ found = << >>
    /\ todo = << >>
    /\ result = << >>
    /\ loop = [ ctx |-> "new", patched |-> FALSE ]
    /\ task = NoTask
    /\ conn = [ open |-> 0, opened |-> 0, abandoned |-> 0 ]

\* find_kernel_specs answering from the environments an earlier query
\* returned, when there are any, in place of a query of its own.
FindKernelSpecsCached ==
    /\ pc = "idle"
    /\ \E w \in Worlds :
         \E envs \in { IF registry # << >> THEN registry ELSE w.envs } :
         \E fs \in FsChoices(envs) :
         \E r \in { find_kernel_specs(conda_store_only, w.query, envs,
                                      name_format, userDir, sysDir, fs) } :
             /\ registry' = IF w.query = "ok" THEN w.envs ELSE registry
             /\ userDir' = r.userDir
             /\ call' = Call("find_kernel_specs", << >>, r.exc, r.value, 1,
                             userDir, r.cycle)
    /\ UNCHANGED << loop, task, conn, conda_store_only, name_format, sysDir,
                    userDir0, pc, found, todo, result >>

FindKernelSpecs ==
    /\ pc = "idle"
    /\ \E w \in Worlds :
         \E r \in { find_kernel_specs(conda_store_only, w.query, w.envs,
                                      name_format, userDir, sysDir, w.fs) } :
             /\ registry' = IF w.query = "ok" THEN w.envs ELSE registry
             /\ userDir' = r.userDir
             /\ call' = Call("find_kernel_specs", << >>, r.exc, r.value, 1,
                             userDir, r.cycle)
    /\ UNCHANGED << loop, task, conn, conda_store_only, name_format, sysDir, userDir0,
                    pc, found, todo, result >>

GetKernelSpec ==
    /\ pc = "idle"
    /\ \E kernel_name \in KernelNames, w \in Worlds :
         \E r \in { get_kernel_spec(conda_store_only, kernel_name, w.query,
                                    w.envs, name_format, userDir, sysDir, w.fs) } :
             /\ registry' = IF w.query = "ok" THEN w.envs ELSE registry
             /\ userDir' = r.userDir
             /\ call' = Call("get_kernel_spec", kernel_name, r.exc, r.value, 1,
                             userDir, r.cycle)
    /\ UNCHANGED << loop, task, conn, conda_store_only, name_format, sysDir, userDir0,
                    pc, found, todo, result >>

\* get_all_specs up to the start of its loop (manager.py:149-150).
GetAllSpecsBegin ==
    /\ pc = "idle"
    /\ \E w \in Worlds :
         \E r \in { find_kernel_specs(conda_store_only, w.query, w.envs,
                                      name_format, userDir, sysDir, w.fs) } :
             /\ registry' = IF w.query = "ok" THEN w.envs ELSE registry
             /\ userDir' = r.userDir
             /\ IF r.exc # "none"
                  THEN /\ call' = Call("get_all_specs", << >>, r.exc, << >>, 1,
                                       userDir, r.cycle)
                       /\ UNCHANGED << pc, found, todo, result >>
                  ELSE /\ call' = Call("get_all_specs", << >>, "running", << >>,
                                       1, userDir, r.cycle)
                       /\ pc' = "get_all_specs"
                       /\ found' = r.value[1]
                       /\ todo' = items(native_find_kernel_specs(userDir, sysDir),
                                        conda_store_only, w.envs)
                       /\ result' = << >>
    /\ UNCHANGED << loop, task, conn, conda_store_only, name_format, sysDir, userDir0 >>

\* One iteration of the loop of get_all_specs (manager.py:150-155): a
\* get_kernel_spec call, which is a cycle of its own.
GetAllSpecsStep ==
    /\ pc = "get_all_specs"
    /\ todo # << >>
    /\ \E w \in Worlds :
         \E r \in { get_kernel_spec(conda_store_only, Head(todo), w.query,
                                    w.envs, name_format, userDir, sysDir, w.fs) } :
         LET name == Head(todo)
             c(exc) == Call("get_all_specs", name, exc, << >>,
                            call.queries + 1, call.before, r.cycle)
         IN  /\ registry' = IF w.query = "ok" THEN w.envs ELSE registry
             /\ userDir' = r.userDir
             /\ IF r.exc = "NoSuchKernel"
                  \* except NoSuchKernel: log and go on
                  THEN /\ call' = c("running")
                       /\ todo' = Tail(todo)
                       /\ UNCHANGED << pc, found, result >>
                ELSE IF r.exc # "none"
                  THEN /\ call' = c(r.exc)
                       /\ pc' = "idle"
                       /\ found' = << >> /\ todo' = << >> /\ result' = << >>
                ELSE IF r.value = << >>
                  \* spec is None: spec.to_dict() raises AttributeError
                  THEN /\ call' = c(ExcNoneToDict)
                       /\ pc' = "idle"
                       /\ found' = << >> /\ todo' = << >> /\ result' = << >>
                ELSE /\ call' = c("running")
                     /\ result' = Put(result, name,
                                      [ resource_dir |-> found[name],
                                        spec |-> to_dict(r.value[1]) ])
                     /\ todo' = Tail(todo)
                     /\ UNCHANGED << pc, found >>
    /\ UNCHANGED << loop, task, conn, conda_store_only, name_format, sysDir, userDir0 >>

\* return result (manager.py:156)
GetAllSpecsReturn ==
    /\ pc = "get_all_specs"
    /\ todo = << >>
    /\ call' = [ call EXCEPT !.exc = "none", !.value = << result >>, !.arg = << >> ]
    /\ pc' = "idle"
    /\ found' = << >>
    /\ result' = << >>
    /\ UNCHANGED << loop, task, conn, registry, conda_store_only, name_format, userDir, sysDir,
                    userDir0, todo >>

RemoveKernelSpec ==
    /\ pc = "idle"
    /\ \E name \in KernelNames :
         /\ userDir' = remove_kernel_spec(userDir, name)
         /\ call' = Call("remove_kernel_spec", name, "none", << >>, 0, userDir,
                         NoCycle)
    /\ UNCHANGED << loop, task, conn, registry, conda_store_only, name_format, sysDir, userDir0,
                    pc, found, todo, result >>

(***************************************************************************)
(* One evaluation of the kernel_specs property step by step: wrapped() of  *)
(* run_sync, and the _kernel_specs coroutine from one suspension point to  *)
(* the next.                                                               *)
(***************************************************************************)
\* wrapped() up to loop.run_until_complete(future) (utils.py:11-26): the loop
\* is chosen and patched, the coroutine is scheduled on it.
Wrapped ==
    /\ pc = "idle"
    /\ task.pc = "idle"
    /\ \E ctx \in LoopContexts :
         \E l \in { nest_asyncio_apply(get_loop(ctx, loop)) } :
             /\ loop' = l
             /\ IF can_run_until_complete(l)
                  THEN /\ task' = [ NoTask EXCEPT !.pc = "scheduled",
                                                  !.before = userDir ]
                       /\ call' = Call("kernel_specs", << >>, "running", << >>,
                                       0, userDir, NoCycle)
                  ELSE /\ task' = NoTask
                       /\ call' = Call("kernel_specs", << >>, ExcAlreadyRunning,
                                       << >>, 0, userDir,
                                       [ NoCycle EXCEPT !.cancelled = TRUE ])
    /\ conn' = [ conn EXCEPT !.opened = 0 ]
    /\ UNCHANGED << registry, conda_store_only, name_format, userDir, sysDir,
                    userDir0, pc, found, todo, result >>

\* async with api.CondaStoreAPI(...) as conda_store_api (manager.py:63-67):
\* the connection is opened.  The loop runs again here, so a coroutine that
\* an earlier call left with a cancellation requested receives it now and
\* leaves its async with block.
ApiEnter ==
    /\ task.pc = "scheduled"
    /\ task' = [ task EXCEPT !.pc = "entered" ]
    /\ conn' = [ open      |-> conn.open - conn.abandoned + 1,
                 opened    |-> conn.opened + 1,
                 abandoned |-> 0 ]
    /\ UNCHANGED << registry, conda_store_only, name_format, userDir, sysDir,
                    userDir0, call, pc, found, todo, result, loop >>

\* environments = await conda_store_api.list_environments(...)
\* (manager.py:68-72): the awaited query ends.
ListEnvironments ==
    /\ task.pc = "entered"
    /\ \E w \in RegistryWorlds :
         \E environments \in { list_environments(w.held, "COMPLETED",
                                                 "CONDA_PACK", { "ipykernel" }) } :
         \E envs \in { [ i \in 1..Len(environments) |-> EnvOf(environments[i]) ] } :
             /\ task' = [ task EXCEPT !.pc = "queried", !.held = w.held,
                                      !.envs = envs, !.coro.query = w.query ]
             /\ registry' = IF w.query = "ok" THEN envs ELSE registry
    /\ UNCHANGED << conda_store_only, name_format, userDir, sysDir, userDir0,
                    call, pc, found, todo, result, loop, conn >>

\* The caller is interrupted while the loop waits for the registry:
\* run_until_complete raises KeyboardInterrupt, and wrapped() requests the
\* future's cancellation and re-raises (utils.py:27-29).  The loop does not
\* run after that, so the coroutine stays where it was, inside its async
\* with block.
Interrupt ==
    /\ task.pc = "entered"
    /\ task' = [ task EXCEPT !.pc = "idle" ]
    /\ conn' = [ conn EXCEPT !.abandoned = conn.abandoned + 1 ]
    /\ call' = Call("kernel_specs", << >>, "KeyboardInterrupt", << >>, 1,
                    task.before, [ NoCycle EXCEPT !.cancelled = TRUE ])
    /\ UNCHANGED << registry, conda_store_only, name_format, userDir, sysDir,
                    userDir0, pc, found, todo, result, loop >>

\* The end of the async with block (manager.py:63-72): the connection is
\* closed, on the way to the loop or on the way out with the query's failure.
ApiExit ==
    /\ task.pc = "queried"
    /\ conn' = [ conn EXCEPT !.open = conn.open - 1 ]
    /\ task' = IF task.coro.query = "ok"
                 THEN [ task EXCEPT !.pc = "loop" ]
                 ELSE [ task EXCEPT !.pc = "done",
                                    !.coro.exc = task.coro.query,
                                    !.coro.userDir = userDir ]
    /\ UNCHANGED << registry, conda_store_only, name_format, userDir, sysDir,
                    userDir0, call, pc, found, todo, result, loop >>

\* kernel_specs = {} and the for loop (manager.py:74-130), which has no
\* suspension point.
InstallLoop ==
    /\ task.pc = "loop"
    /\ \E fs \in FsChoices(task.envs) :
         \E r \in { install_loop(task.envs, 1, name_format, userDir, sysDir,
                                  fs, << >>, << >>) } :
             /\ userDir' = r.userDir
             /\ task' = [ task EXCEPT !.pc = "done", !.coro = r ]
    /\ UNCHANGED << registry, conda_store_only, name_format, sysDir, userDir0,
                    call, pc, found, todo, result, loop, conn >>

\* loop.run_until_complete(future) ends with the coroutine, and wrapped()
\* returns or raises (utils.py:25-29).
RunUntilComplete ==
    /\ task.pc = "done"
    /\ \E r \in { run_sync(task.coro) } :
         call' = Call("kernel_specs", << >>, r.exc,
                      IF r.exc = "none" THEN << r.kernel_specs >> ELSE << >>,
                      1, task.before, r)
    /\ task' = [ task EXCEPT !.pc = "idle" ]
    /\ UNCHANGED << registry, conda_store_only, name_format, userDir, sysDir,
                    userDir0, pc, found, todo, result, loop, conn >>

\* The callers of find_kernel_specs, get_kernel_spec and remove_kernel_spec.
Next ==
    \/ FindKernelSpecs
    \/ GetKernelSpec
    \/ RemoveKernelSpec

Spec == Init /\ [][Next]_vars

\* The callers that use get_all_specs alone.
NextGetAllSpecs ==
    \/ GetAllSpecsBegin
    \/ GetAllSpecsStep
    \/ GetAllSpecsReturn

SpecGetAllSpecs == Init /\ [][NextGetAllSpecs]_vars

\* The callers of all four operations.
SpecFacade == Init /\ [][Next \/ NextGetAllSpecs]_vars

\* The kernel_specs property evaluated again and again.
NextKernelSpecs ==
    \/ Wrapped
    \/ ApiEnter
    \/ ListEnvironments
    \/ Interrupt
    \/ ApiExit
    \/ InstallLoop
    \/ RunUntilComplete

SpecKernelSpecs == Init /\ [][NextKernelSpecs]_vars

(***************************************************************************)
(* Properties.                                                             *)
(***************************************************************************)
CycleCall == call.op \in { "find_kernel_specs", "get_kernel_spec" }

\* The definition built for the i-th environment of the latest query.
DefinitionAt(i) == KernelSpecOf[name_format][registry[i]]

\* The kernel.json the cycle is to write for a definition: its fields
\* display_name, argv, language, resource_dir and metadata.
SerializedDefinition(spec) ==
    [ display_name |-> spec.display_name,
      argv         |-> spec.argv,
      language     |-> spec.language,
      resource_dir |-> spec.resource_dir,
      metadata     |-> spec.metadata ]

\* The kernel name a definition is installed under.
KernelNameAt(i) == LowerOf[DefinitionAt(i).display_name]

RemoteIds == { IdentityOf[registry[i]] : i \in 1..Len(registry) }

EndsWith(s, suffix) ==
    /\ Len(s) >= Len(suffix)
    /\ SubSeq(s, Len(s) - Len(suffix) + 1, Len(s)) = suffix

\* C1: when the registry query of a find_kernel_specs call fails, the call
\* raises that failure, returns no value, and the user's kernel directory is
\* what it was when the call began.
C1_QueryFailurePropagates ==
    (call.op = "find_kernel_specs" /\ call.query \in QueryFailures)
        => /\ call.exc = call.query
           /\ call.value = << >>
           /\ userDir = call.before

\* A find_kernel_specs call whose query failed with a connection error,
\* made after an earlier query had returned environments.
C1_Witness ==
    /\ call.op = "find_kernel_specs"
    /\ call.query = "ConnectionError"
    /\ registry # << >>
    /\ DOMAIN userDir # {}

\* C2: in a cycle where the installation of one definition failed with a
\* filesystem error, the cycle completes without raising and every
\* definition whose own installation did not fail is a kernel directory on
\* disk afterwards.
C2_FailureIsolated ==
    ( /\ call.op = "find_kernel_specs"
      /\ call.query = "ok"
      /\ \E i \in DOMAIN call.steps : call.steps[i].warned )
        => /\ call.exc = "none"
           /\ \A i \in 1..Len(registry) :
                (i \notin DOMAIN call.steps \/ ~ call.steps[i].warned)
                    => is_kernel_dir(userDir, KernelNameAt(i))

\* C3: for every definition whose installation step returned a destination,
\* kernel.json at that destination holds the serialized definition of this
\* cycle once the cycle is over.
C3_KernelJsonWritten ==
    CycleCall =>
        \A i \in DOMAIN call.steps :
            call.steps[i].destination # << >>
                => /\ KernelNameAt(i) \in DOMAIN userDir
                   /\ UserPath[KernelNameAt(i)] = call.steps[i].destination
                   /\ userDir[KernelNameAt(i)].kernel_json
                        = << SerializedDefinition(DefinitionAt(i)) >>

\* C4: a find_kernel_specs call that returns gives, in remote-only mode,
\* exactly the remote identities of its cycle; otherwise the native mapping
\* found when the call began with the remote mapping laid over it, which is
\* the native mapping itself when the registry returned no environment.
C4_MergePolicy ==
    (call.op = "find_kernel_specs" /\ call.exc = "none")
        => LET res    == call.value[1]
               native == native_find_kernel_specs(call.before, sysDir)
               dirOf(k) == resource_dir(
                   registry[CHOOSE i \in 1..Len(registry) :
                                IdentityOf[registry[i]] = k])
           IN  /\ conda_store_only
                    => /\ DOMAIN res = RemoteIds
                       /\ DOMAIN res \cap DOMAIN native = {}
               /\ ~ conda_store_only
                    => /\ DOMAIN res = DOMAIN native \cup RemoteIds
                       /\ \A k \in DOMAIN res :
                            res[k] = IF k \in RemoteIds THEN dirOf(k)
                                                        ELSE native[k]
               /\ (~ conda_store_only /\ registry = << >>)
                    => /\ DOMAIN res = DOMAIN native
                       /\ \A k \in DOMAIN res : res[k] = native[k]

\* A find_kernel_specs call in remote-only mode that returned remote
\* identities while native kernels were there to be found.
C4_Witness ==
    /\ call.op = "find_kernel_specs"
    /\ call.exc = "none"
    /\ conda_store_only
    /\ registry # << >>
    /\ DOMAIN native_find_kernel_specs(call.before, sysDir) # {}

\* C5: a get_kernel_spec call whose query was answered returns the remote
\* definition of that identity when the registry has it; otherwise, outside
\* remote-only mode, the native kernel of that name when there is one; and
\* otherwise returns None without raising, in either mode.
C5_GetKernelSpec ==
    (call.op = "get_kernel_spec" /\ call.query = "ok")
        => LET at == { i \in 1..Len(registry) :
                         IdentityOf[registry[i]] = call.arg }
           IN  IF at # {}
                 THEN /\ call.exc = "none"
                      /\ \E i \in at : call.value = << DefinitionAt(i) >>
               ELSE IF /\ ~ conda_store_only
                       /\ call.arg \in DOMAIN native_find_kernel_specs(userDir, sysDir)
                 THEN /\ call.exc = "none"
                      /\ call.value # << >>
               ELSE /\ call.exc = "none"
                    /\ call.value = << >>

\* C6: get_all_specs never aborts because an identity its find_kernel_specs
\* returned resolves to nothing in the get_kernel_spec call made for it.
C6_GetAllSpecsSkipsUnresolved ==
    call.op = "get_all_specs" => call.exc # ExcNoneToDict

\* C7: a remove_kernel_spec call returns without raising, issues no registry
\* query, and leaves the kernel directories, the registry and the
\* configuration as they were.
C7_RemoveIsNoOp ==
    [][ (call'.op = "remove_kernel_spec" /\ call' # call)
            => /\ call'.exc = "none"
               /\ call'.queries = 0
               /\ userDir' = userDir
               /\ sysDir' = sysDir
               /\ registry' = registry
               /\ conda_store_only' = conda_store_only
               /\ name_format' = name_format ]_vars

\* A remove_kernel_spec call for a name that has a directory on disk.
C7_Witness ==
    /\ call.op = "remove_kernel_spec"
    /\ call.arg \in DOMAIN call.before
    /\ call.exc = "none"

\* C8: when two successive cycles against an unchanged registry both
\* install a definition, the one directory it has on disk afterwards holds
\* a kernel.json equal to the serialized definition.
C8_InstallIdempotent ==
    [][ ( /\ CycleCall /\ call.query = "ok"
          /\ CycleCall' /\ call'.query = "ok"
          /\ registry' = registry )
            => \A i \in DOMAIN call'.steps :
                 ( /\ i \in DOMAIN call.steps
                   /\ call.steps[i].destination # << >>
                   /\ call'.steps[i].destination # << >> )
                     => /\ KernelNameAt(i) \in DOMAIN userDir'
                        /\ userDir'[KernelNameAt(i)].kernel_json
                             = << SerializedDefinition(DefinitionAt(i)) >> ]_vars

\* C9: every kernel directory the user's kernel directory held before the
\* first cycle is still there, with its content unchanged.
C9_NativeEntriesUntouched ==
    \A k \in DOMAIN userDir0 :
        k \in DOMAIN userDir /\ userDir[k] = userDir0[k]

\* C10: with the default template, a find_kernel_specs call whose query was
\* answered returns, and its result maps conda-store://<namespace>/<name>:<build>
\* of every environment returned to a directory ending in conda-store/<build>.
C10_DefaultTemplateKeys ==
    ( /\ call.op = "find_kernel_specs"
      /\ call.query = "ok"
      /\ name_format = DefaultNameFormat )
        => /\ call.exc = "none"
           /\ \A i \in 1..Len(registry) :
                LET env == registry[i]
                    key == s_scheme \o env.namespace \o <<"/">> \o env.name
                             \o <<":">> \o str(env.current_build_id)
                IN  /\ key \in DOMAIN call.value[1]
                    /\ EndsWith(call.value[1][key],
                                s_conda_store \o <<"/">>
                                    \o str(env.current_build_id))

\* The latest evaluation of the kernel_specs property is over.
KernelSpecsOver ==
    call.op = "kernel_specs" /\ call.exc # "running" /\ task.pc = "idle"

\* The filters of the query exclude the record.
Excluded(r) ==
    \/ r.status # "COMPLETED"
    \/ "CONDA_PACK" \notin r.artifacts
    \/ "ipykernel" \notin r.packages

\* The identities the latest cycle built a definition for.
Translated ==
    { task.coro.steps[k].identity : k \in DOMAIN task.coro.steps }
        \cup DOMAIN task.coro.kernel_specs

\* C11: environments a query returned that differ in namespace, name or
\* build have different identities, and the mapping of a cycle that returns
\* has one key for each of them.
C11_IdentitiesDiffer ==
    /\ \A i, j \in 1..Len(task.envs) :
         task.envs[i] # task.envs[j]
             => IdentityOf[task.envs[i]] # IdentityOf[task.envs[j]]
    /\ (KernelSpecsOver /\ call.exc = "none")
         => Cardinality(DOMAIN call.value[1]) = Len(task.envs)

\* C12: of the records the registry held at the query, those whose status is
\* not COMPLETED, or which lack the CONDA_PACK artifact or the ipykernel
\* package, are not among the environments the loop works on, and no
\* definition is built or installed for them.
C12_OnlyEligibleTranslated ==
    \A i \in 1..Len(task.held) :
        Excluded(task.held[i])
            => /\ \A j \in 1..Len(task.envs) : task.envs[j] # EnvOf(task.held[i])
               /\ IdentityOf[EnvOf(task.held[i])] \notin Translated

\* A cycle over a registry that held a record the filters exclude next to
\* one they let through, and that built a definition.
C12_Witness ==
    /\ KernelSpecsOver
    /\ \E i \in 1..Len(task.held) : Excluded(task.held[i])
    /\ \E i \in 1..Len(task.held) : ~ Excluded(task.held[i])
    /\ Translated # {}

\* C13: a cycle opens one connection; the connection is closed when the loop
\* over the environments begins, and none is open once the evaluation of
\* kernel_specs has returned or raised.
C13_ConnectionReleased ==
    /\ task.pc \in { "loop", "done" } => (conn.opened = 1 /\ conn.open = 0)
    /\ KernelSpecsOver => (conn.opened = 1 /\ conn.open = 0)

HasScheme(k) ==
    Len(k) >= Len(s_scheme) /\ SubSeq(k, 1, Len(s_scheme)) = s_scheme

WriteCompleted(k) ==
    /\ call.steps[k].destination # << >>
    /\ call.steps[k].exc = "none"
    /\ ~ call.steps[k].warned

\* C16: a cycle works on the environments in the order the query returned
\* them, and where several of them are installed under one kernel name, the
\* kernel.json of that directory is, after the cycle, the serialized
\* definition of the last of them.
C16_LaterDefinitionWins ==
    (CycleCall /\ call.query = "ok")
        => /\ \A k \in DOMAIN call.steps :
                /\ k <= Len(registry)
                /\ call.steps[k].identity = IdentityOf[registry[k]]
           /\ \A i, j \in 1..Len(registry) :
                ( /\ i < j
                  /\ IsValidKernelName[KernelNameAt(j)]
                  /\ KernelNameAt(i) = KernelNameAt(j)
                  /\ \A l \in (j + 1)..Len(registry) :
                       KernelNameAt(l) # KernelNameAt(j) )
                    => /\ KernelNameAt(j) \in DOMAIN userDir
                       /\ userDir[KernelNameAt(j)].kernel_json
                            = << SerializedDefinition(DefinitionAt(j)) >>

\* C17: a definition whose installation step returned a destination but
\* whose kernel.json write did not complete is not a kernel directory on disk
\* after the cycle.
C17_InstalledOnlyIfWritten ==
    CycleCall =>
        \A k \in DOMAIN call.steps :
            (call.steps[k].destination # << >> /\ ~ WriteCompleted(k))
                => ~ is_kernel_dir(userDir, KernelNameAt(k))

\* C18: a find_kernel_specs call whose query was answered, and in whose
\* cycle an installation failed with a filesystem error, returns, and its
\* result has the identity of every environment the query returned.
C18_ResultKeepsFailedInstalls ==
    ( /\ call.op = "find_kernel_specs"
      /\ call.query = "ok"
      /\ \E k \in DOMAIN call.steps : call.steps[k].warned )
        => /\ call.exc = "none"
           /\ call.value # << >>
           /\ RemoteIds \subseteq DOMAIN call.value[1]

\* C19: no call takes away a kernel directory that a cycle has put into the
\* user's kernel directory.
C19_InstalledEntriesPersist ==
    [][ \A k \in DOMAIN userDir :
          k \notin DOMAIN userDir0 => k \in DOMAIN userDir' ]_vars

====
